---- MODULE Spec2Model ----
(***************************************************************************)
(* A model of electron/patch-conflict-fixer (src/src/index.ts): the push   *)
(* handler, the two bounded task queues, the mergeability prober, the      *)
(* temporary workspace and the repair task (clone, merge, republish,       *)
(* cleanup), together with the part of the hosting service and of git      *)
(* that the code talks to.                                                 *)
(*                                                                         *)
(* Every `await` of the source is a point where other tasks may run, so    *)
(* every action below is "the awaited call returns, and the code runs on   *)
(* to its next await".                                                     *)
(***************************************************************************)
EXTENDS Integers, Sequences, FiniteSets, TLC

(* ------------------------------------------------------------------ *)
(* Program constants                                                   *)
(* ------------------------------------------------------------------ *)
discoveryConcurrency == 4
repairConcurrency == 3
MaxAttempts == 3
BackoffMs == 5000

(* ------------------------------------------------------------------ *)
(* Bounds of the model: what the environment may do in one behaviour   *)
(* ------------------------------------------------------------------ *)
\* push events delivered
MaxPushes == 2
\* discovery jobs pushed onto mergabilityQueue
MaxJobs == 2
\* calls (API, git, filesystem) that reject
MaxFaults == 2
\* pulls.get answers of mergeable_state 'unknown'
MaxUnknown == 1
\* times Date.now() is seen to have advanced between two reads
MaxTicks == 1

\* the general environment
Limits ==
  [pushes |-> MaxPushes, jobs |-> MaxJobs, faults |-> MaxFaults,
   unknowns |-> MaxUnknown, ticks |-> MaxTicks]

\* one pull request whose mergeability may stay unknown for a whole probe
ProbeLimits ==
  [pushes |-> 1, jobs |-> 1, faults |-> 1, unknowns |-> MaxAttempts, ticks |-> 0]

\* one push that finds one pull request more than the discovery queue has
\* slots, every call succeeding and every answer resolved
\* one push with four pull requests, one rejected call
CrowdLimits == [pushes |-> 1, jobs |-> repairConcurrency + 1, faults |-> 1, unknowns |-> 0, ticks |-> 0]

\* one push with four pull requests, no rejected call
WaitLimits == [pushes |-> 1, jobs |-> repairConcurrency + 1, faults |-> 0, unknowns |-> 0, ticks |-> 0]

LoadLimits ==
  [pushes |-> 1, jobs |-> discoveryConcurrency + 1, faults |-> 0, unknowns |-> 0,
   ticks |-> 0]

(* ------------------------------------------------------------------ *)
(* Strings are sequences of one-character strings, so that startsWith, *)
(* substr, the release-line regular expression and toLowerCase are     *)
(* computed, not assumed.                                              *)
(* ------------------------------------------------------------------ *)
RefsHeads == <<"r","e","f","s","/","h","e","a","d","s","/">>
Main == <<"m","a","i","n">>
Line7 == <<"7","-","x","-","y">>
Digits == {"0","1","2","3","4","5","6","7","8","9"}

StartsWith(s, p) == Len(s) >= Len(p) /\ SubSeq(s, 1, Len(p)) = p

Substr(s, n) == SubSeq(s, n + 1, Len(s))

\* variant: /^[0-9]*-x-y$/, the digits may be missing
MatchesReleaseLineNoDigits(b) ==
  \E k \in 0..Len(b) :
    /\ \A i \in 1..k : b[i] \in Digits
    /\ SubSeq(b, k + 1, Len(b)) = <<"-","x","-","y">>

\* /^[0-9]+-x-y$/.test(b)
MatchesReleaseLine(b) ==
  \E k \in 1..Len(b) :
    /\ \A i \in 1..k : b[i] \in Digits
    /\ SubSeq(b, k + 1, Len(b)) = <<"-","x","-","y">>

IsReleaseBranch(b) == b = Main \/ MatchesReleaseLine(b)

LowerChar(c) ==
  CASE c = "F" -> "f"
    [] c = "X" -> "x"
    [] c = "Y" -> "y"
    [] c = "M" -> "m"
    [] OTHER -> c

ToLowerCase(s) == [i \in 1..Len(s) |-> LowerChar(s[i])]

(* ------------------------------------------------------------------ *)
(* The hosting service: the event's repository, its pull requests,     *)
(* the refs a push event may carry.                                    *)
(* ------------------------------------------------------------------ *)
Owner == "electron"
Repo == "electron"
NoRepo == [owner |-> "null", name |-> "null", gone |-> TRUE]

RepoOf(o, n) == [owner |-> o, name |-> n, gone |-> FALSE]

\* the open pull requests the listing may return (payload of pulls.list)
PullRequests ==
  { [number |-> 1, headRepo |-> RepoOf(Owner, Repo), headRef |-> <<"F","x">>, baseRef |-> Main],
    [number |-> 2, headRepo |-> RepoOf("contrib", Repo), headRef |-> <<"f","x">>, baseRef |-> Main],
    [number |-> 3, headRepo |-> RepoOf(Owner, Repo), headRef |-> <<"f","x">>, baseRef |-> Main],
    [number |-> 4, headRepo |-> NoRepo, headRef |-> <<"g","o">>, baseRef |-> Main],
    [number |-> 5, headRepo |-> RepoOf(Owner, "docs"), headRef |-> <<"F","x">>, baseRef |-> Main],
    [number |-> 6, headRepo |-> RepoOf(Owner, Repo), headRef |-> <<"p","6">>, baseRef |-> Line7],
    [number |-> 7, headRepo |-> RepoOf(Owner, Repo), headRef |-> <<"p","7">>, baseRef |-> Main],
    [number |-> 8, headRepo |-> RepoOf(Owner, Repo), headRef |-> <<"p","8">>, baseRef |-> Main],
    [number |-> 9, headRepo |-> RepoOf(Owner, Repo), headRef |-> <<"p","9">>, baseRef |-> Main] }

PR(n) == CHOOSE p \in PullRequests : p.number = n

\* the pages pulls.list may return, as pull request numbers in listing order
Listings ==
  { <<1>>, <<2, 3>>, <<5, 1>>, <<2, 4, 3>>, <<6>>, <<3, 7, 8, 9>>, <<1, 3, 7, 8, 9>> }

\* pulls.list({base, state: 'open'}): only pull requests against `base`, none
\* when no pull request is open against it
ListingsFor(base) ==
  IF \E p \in PullRequests : p.baseRef = base
  THEN { l \in Listings : \A i \in 1..Len(l) : PR(l[i]).baseRef = base }
  ELSE { <<>> }

\* refs a push event may carry
Refs ==
  { RefsHeads \o Main,
    RefsHeads \o Line7,
    RefsHeads \o <<"1","2","-","x","-","y">>,
    RefsHeads \o <<"7","-","X","-","Y">>,
    RefsHeads \o <<"-","x","-","y">>,
    RefsHeads \o <<"m","a","i","n","2">>,
    RefsHeads \o <<"f","e","a","t","u","r","e","/","f","o","o">>,
    <<"r","e","f","s","/","t","a","g","s","/">> \o Main }

BaseBranches == { p.baseRef : p \in PullRequests }
HeadBranches == { p.headRef : p \in { q \in PullRequests : q.headRepo = RepoOf(Owner, Repo) } }

(* ------------------------------------------------------------------ *)
(* Commits: a tree (a set of content atoms), the parent commits, the   *)
(* message (a sequence of tokens) and who made the object.             *)
(* ------------------------------------------------------------------ *)
CiSkip == "[ci skip] "

Commit(tree, parents, message, by) ==
  [tree |-> tree, parents |-> parents, message |-> message, by |-> by]

RootCommit == Commit({<<"root">>}, <<>>, <<"initial">>, <<"dev", 0, 0>>)

\* the commit a developer pushed to base branch b as push number n
PushedCommit(b, prev, n) ==
  Commit(prev.tree \cup {<<"base", n>>}, <<prev>>, <<"release work">>, <<"dev", n, 0>>)

\* the head commit of pull request branch h before any repair
HeadCommit(h) == Commit({<<"root">>, <<"head", h>>}, <<RootCommit>>, <<"patch">>, <<"dev", 0, 1>>)

\* variant: every commit passes for an ancestor of every other
IsAncestorOfAny(a, c) == TRUE

RECURSIVE IsAncestor(_, _)
\* a is c or reachable from c through parents
IsAncestor(a, c) ==
  \/ a = c
  \/ \E i \in 1..Len(c.parents) : IsAncestor(a, c.parents[i])

\* git merge <base> -m "[ci skip] Merged in branch '<base>' to fix mergability"
MergeMessage(baseRef) ==
  <<CiSkip, "Merged in branch '">> \o baseRef \o <<"' to fix mergability">>

\* what `git merge` leaves at HEAD when it exits 0: nothing new when base is
\* already contained in head, base itself on a fast-forward, a merge commit
\* otherwise
GitMerge(head, base, baseRef, id) ==
  IF IsAncestor(base, head) THEN head
  ELSE IF IsAncestor(head, base) THEN base
  ELSE Commit(head.tree \cup base.tree, <<head, base>>, MergeMessage(baseRef), <<"bot", id[1], id[2]>>)

\* commit.data.message.replace(/^\[ci skip\] /g, '')
StripCiSkip(msg) ==
  IF Len(msg) > 0 /\ msg[1] = CiSkip THEN Tail(msg) ELSE msg

\* variant: the new commit keeps only the first parent of the fetched commit
RepublishedFirstParent(commit, id) ==
  Commit(commit.tree, SubSeq(commit.parents, 1, 1), StripCiSkip(commit.message),
         <<"api", id[1], id[2]>>)

\* git.createCommit({message, tree, parents}) made from the fetched commit
Republished(commit, id) ==
  Commit(commit.tree, commit.parents, StripCiSkip(commit.message), <<"api", id[1], id[2]>>)

\* `patch-conflict-fix/${head.ref}/${Date.now()}`.toLowerCase()
TempBranchName(headRef, ts) == <<"patch-conflict-fix/", ToLowerCase(headRef), ts>>
NoName == <<>>

(* ------------------------------------------------------------------ *)
(* State                                                               *)
(* ------------------------------------------------------------------ *)
VARIABLES
  nPush,      \* push events delivered so far
  handlers,   \* invocations of the push handler that have not returned yet
  dq,         \* mergabilityQueue: jobs not started, in push order
  drun,       \* mergabilityQueue: jobs executing
  rq,         \* mergeQueue: jobs not started, in push order
  rrun,       \* mergeQueue: jobs executing
  baseTip,    \* remote: tip of every base branch
  heads,      \* remote: tip of every pull request head branch of the repository
  tempRefs,   \* remote: temporary branches, name -> commit
  dirs,       \* local: the temporary directories that exist (by owning job)
  now,        \* the clock, as last observed by the process
  budget,     \* what the environment has used up of its limits
  limit,      \* the limits of the environment in this behaviour
  hist        \* history: the directories whose fs.remove was rejected, per
              \* head branch the commit of the last updateRef the remote got,
              \* the temporary branch names assigned, and whether one of them
              \* was assigned twice

vars ==
  <<nPush, handlers, dq, drun, rq, rrun, baseTip, heads, tempRefs, dirs, now, budget, limit,
    hist>>

\* the event loop runs the continuation of a settled promise (a microtask)
\* before it delivers the next I/O result or timer
Quiet ==
  /\ \A h \in handlers : h.pc # "end"
  /\ \A t \in drun : t.pc # "settled"
  /\ \A t \in rrun : t.pc # "settled"

\* the outcomes an awaited call may have: success (TRUE) or rejection
Outcomes == IF budget.faults < limit.faults THEN BOOLEAN ELSE {TRUE}

Spend(ok) == budget' = [budget EXCEPT !.faults = IF ok THEN @ ELSE @ + 1]

(* ------------------------------------------------------------------ *)
(* queue({ concurrency, autostart: true }): push() starts the job at   *)
(* once when a slot is free, a finished job starts the next one.       *)
(* ------------------------------------------------------------------ *)
Min(a, b) == IF a < b THEN a ELSE b
Max(a, b) == IF a > b THEN a ELSE b

\* variant: the number of executing jobs is not taken off the slots
FreeSlotsUnchecked(run, concurrency) == concurrency

\* slots left: queue starts jobs while pending < concurrency
FreeSlots(run, concurrency) == Max(0, concurrency - Cardinality(run))

\* variant: the queue does not start jobs by itself (autostart: false)
StartingNever(run, q, concurrency) == 0

\* how many of the waiting jobs start now
Starting(run, q, concurrency) == Min(Len(q), FreeSlots(run, concurrency))

\* a discovery job as it is when it starts: the first pulls.get is issued
NewProbe(job, t) ==
  [id |-> job.id, pr |-> job.pr, pc |-> "fetch", seen |-> <<>>, fetchAt |-> <<t>>,
   sleepFrom |-> 0, result |-> "none", repair |-> FALSE]

\* variant: tempBranchName is assigned before the try block
NewRepairNamed(job) ==
  [id |-> job.id, pr |-> job.pr, state |-> job.state,
   headRef |-> job.headRef, baseRef |-> job.baseRef,
   pc |-> "mkdtemp", name |-> TempBranchName(job.headRef, 0), dir |-> FALSE,
   lbase |-> RootCommit, lhead |-> RootCommit, tip |-> RootCommit,
   sha |-> RootCommit, commit |-> RootCommit, newCommit |-> RootCommit,
   merged |-> "none", failed |-> "none", pushed |-> FALSE, updated |-> FALSE,
   rmFailed |-> FALSE, deleted |-> "none", rejected |-> FALSE, log |-> <<>>]

\* a repair job as it is when it starts: fs.mkdtemp is issued
NewRepair(job) ==
  [id |-> job.id, pr |-> job.pr, state |-> job.state,
   headRef |-> job.headRef, baseRef |-> job.baseRef,
   pc |-> "mkdtemp", name |-> NoName, dir |-> FALSE,
   lbase |-> RootCommit, lhead |-> RootCommit, tip |-> RootCommit,
   sha |-> RootCommit, commit |-> RootCommit, newCommit |-> RootCommit,
   merged |-> "none", failed |-> "none", pushed |-> FALSE, updated |-> FALSE,
   rmFailed |-> FALSE, deleted |-> "none", rejected |-> FALSE, log |-> <<>>]

DiscRunAfter(run, q, t) ==
  run \cup { NewProbe(q[i], t) : i \in 1..Starting(run, q, discoveryConcurrency) }
DiscQueueAfter(run, q) ==
  SubSeq(q, Starting(run, q, discoveryConcurrency) + 1, Len(q))

\* variant: one budget for both queues, no repair job starts while the
\* discovery slots are taken
RepairRunAfterDiscovery(run, q) ==
  IF Cardinality(drun) >= discoveryConcurrency THEN run
  ELSE run \cup { NewRepair(q[i]) : i \in 1..Starting(run, q, repairConcurrency) }

RepairRunAfter(run, q) ==
  run \cup { NewRepair(q[i]) : i \in 1..Starting(run, q, repairConcurrency) }
\* variant: a started job stays in the queue
RepairQueueKeeps(run, q) == q

RepairQueueAfter(run, q) ==
  SubSeq(q, Starting(run, q, repairConcurrency) + 1, Len(q))

(* ------------------------------------------------------------------ *)
(* Init                                                                *)
(* ------------------------------------------------------------------ *)
Start(lim) ==
  /\ limit = lim
  /\ nPush = 0
  /\ handlers = {}
  /\ dq = <<>>
  /\ drun = {}
  /\ rq = <<>>
  /\ rrun = {}
  /\ baseTip = [b \in BaseBranches |-> RootCommit]
  /\ heads = [h \in HeadBranches |-> HeadCommit(h)]
  /\ tempRefs = <<>>
  /\ dirs = {}
  /\ now = 0
  /\ budget = [faults |-> 0, unknowns |-> 0, ticks |-> 0, jobs |-> 0]
  /\ hist = [left |-> {}, lastUpdate |-> [h \in HeadBranches |-> RootCommit],
             names |-> {}, clash |-> FALSE]

Init == Start(Limits)
InitProbe == Start(ProbeLimits)
InitCrowd == Start(CrowdLimits)

InitWait == Start(WaitLimits)

InitLoad == Start(LoadLimits)

(* ------------------------------------------------------------------ *)
(* app.on('push', ...)                                                 *)
(* ------------------------------------------------------------------ *)
\* ref.substr('refs/heads/'.length)
BranchOf(ref) == Substr(ref, Len(RefsHeads))

\* the two nested ifs of the handler
ActsOn(ref) == StartsWith(ref, RefsHeads) /\ IsReleaseBranch(BranchOf(ref))

\* pr.head.repo.owner?.login !== owner || pr.head.repo.name !== repo
IsFork(p) == p.headRepo.owner # Owner \/ p.headRepo.name # Repo

RECURSIVE LoopFrom(_, _)
\* for (const pr of prs): the pull requests pushed onto mergabilityQueue, and
\* whether the loop threw (pr.head.repo is null for a deleted fork)
LoopFrom(prs, i) ==
  IF i > Len(prs) THEN [enq |-> <<>>, threw |-> FALSE]
  ELSE IF PR(prs[i]).headRepo.gone THEN [enq |-> <<>>, threw |-> TRUE]
  ELSE IF IsFork(PR(prs[i])) THEN LoopFrom(prs, i + 1)
  ELSE [enq |-> <<prs[i]>> \o LoopFrom(prs, i + 1).enq,
        threw |-> LoopFrom(prs, i + 1).threw]

\* A push event arrives (the branch it names has just moved on the remote);
\* the handler runs to its first await, the paginated pulls.list.
PushEvent(ref) ==
  /\ Quiet
  /\ nPush < limit.pushes
  /\ nPush' = nPush + 1
  /\ baseTip' =
       IF StartsWith(ref, RefsHeads) /\ BranchOf(ref) \in BaseBranches
       THEN [baseTip EXCEPT ![BranchOf(ref)] = PushedCommit(BranchOf(ref), @, nPush + 1)]
       ELSE baseTip
  /\ handlers' = handlers \cup
       { [n |-> nPush + 1, ref |-> ref,
          pc |-> IF ActsOn(ref) THEN "list" ELSE "end",
          listed |-> ActsOn(ref),
          base |-> IF ActsOn(ref) THEN BranchOf(ref) ELSE <<>>,
          prs |-> <<>>, enq |-> <<>>, threw |-> FALSE] }
  /\ UNCHANGED <<dq, drun, rq, rrun, heads, tempRefs, dirs, now, budget, limit, hist>>

\* jobs pushed onto mergabilityQueue by handler h for the pull requests enq
ProbeJobs(h, enq) == [i \in 1..Len(enq) |-> [id |-> <<h.n, enq[i]>>, pr |-> enq[i]]]

\* pulls.list returns (or rejects); the loop pushes one discovery job per
\* same-repository pull request, and the queue starts what it has slots for.
ListReturn(h) ==
  /\ Quiet
  /\ h \in handlers
  /\ h.pc = "list"
  /\ \E ok \in Outcomes, l \in ListingsFor(h.base) :
       IF ok
       THEN /\ budget.jobs + Len(LoopFrom(l, 1).enq) <= limit.jobs
            /\ budget' = [budget EXCEPT !.jobs = @ + Len(LoopFrom(l, 1).enq)]
            /\ handlers' = (handlers \ {h}) \cup
                 { [h EXCEPT !.pc = "end", !.prs = l, !.enq = LoopFrom(l, 1).enq,
                             !.threw = LoopFrom(l, 1).threw] }
            /\ drun' = DiscRunAfter(drun, dq \o ProbeJobs(h, LoopFrom(l, 1).enq), now)
            /\ dq' = DiscQueueAfter(drun, dq \o ProbeJobs(h, LoopFrom(l, 1).enq))
       ELSE /\ Spend(ok)
            /\ handlers' = (handlers \ {h}) \cup { [h EXCEPT !.pc = "end", !.threw = TRUE] }
            /\ UNCHANGED <<dq, drun>>
  /\ UNCHANGED <<nPush, rq, rrun, baseTip, heads, tempRefs, dirs, now, limit, hist>>

\* the handler's promise settles
HandlerEnd(h) ==
  /\ h \in handlers
  /\ h.pc = "end"
  /\ handlers' = handlers \ {h}
  /\ UNCHANGED <<nPush, dq, drun, rq, rrun, baseTip, heads, tempRefs, dirs, now, budget, limit, hist>>

(* ------------------------------------------------------------------ *)
(* The discovery job and getPRWithMergability                          *)
(* ------------------------------------------------------------------ *)
\* what pulls.get may answer: a mergeable_state, or a rejection
MergeableStates == {"unknown", "dirty", "clean", "blocked"}

FetchResults ==
  {"dirty", "clean", "blocked"}
    \cup (IF budget.unknowns < limit.unknowns THEN {"unknown"} ELSE {})
    \cup (IF budget.faults < limit.faults THEN {"error"} ELSE {})

\* variant: anything but a clean pull request is repaired
IsNotClean(state) == state # "clean"

\* prButBetter && prButBetter.mergeable_state === 'dirty'
IsDirty(state) == state = "dirty"

\* setTimeout(r, 5000)
Backoff == BackoffMs

\* variant: attempt <= 3
RetriesLeftOneMore(seen) == Len(seen) <= MaxAttempts

\* attempt++; attempt < 3
RetriesLeft(seen) == Len(seen) < MaxAttempts

\* mergeable_state !== 'unknown': return pull.data
IsResolved(state) == state # "unknown"

\* what the repair job's closure holds of prButBetter (pull.data)
RepairJob(t, state) ==
  [id |-> t.id, pr |-> t.pr, state |-> state,
   headRef |-> PR(t.pr).headRef, baseRef |-> PR(t.pr).baseRef]

\* pulls.get returns to getPRWithMergability
FetchReturn(t) ==
  /\ Quiet
  /\ t \in drun
  /\ t.pc = "fetch"
  /\ \E res \in FetchResults :
       CASE res = "error" ->
              /\ Spend(FALSE)
              /\ drun' = (drun \ {t}) \cup { [t EXCEPT !.pc = "settled", !.result = "error"] }
              /\ UNCHANGED <<rq, rrun>>
         [] res # "error" /\ ~IsResolved(res) ->
              /\ budget' = [budget EXCEPT !.unknowns = @ + 1]
              /\ drun' = (drun \ {t}) \cup
                   { [t EXCEPT !.pc = "sleep", !.seen = Append(@, res), !.sleepFrom = now] }
              /\ UNCHANGED <<rq, rrun>>
         [] OTHER ->
              /\ UNCHANGED budget
              /\ drun' = (drun \ {t}) \cup
                   { [t EXCEPT !.pc = "settled", !.seen = Append(@, res), !.result = res,
                               !.repair = IsDirty(res)] }
              /\ IF IsDirty(res)
                 THEN /\ rrun' = RepairRunAfter(rrun, Append(rq, RepairJob(t, res)))
                      /\ rq' = RepairQueueAfter(rrun, Append(rq, RepairJob(t, res)))
                 ELSE UNCHANGED <<rq, rrun>>
  /\ UNCHANGED <<nPush, handlers, dq, baseTip, heads, tempRefs, dirs, now, limit, hist>>

\* the 5 second timer fires: next attempt, or null after the third
Wake(t) ==
  /\ Quiet
  /\ t \in drun
  /\ t.pc = "sleep"
  /\ now' = Max(now, t.sleepFrom + Backoff)
  /\ drun' = (drun \ {t}) \cup
       { IF RetriesLeft(t.seen)
         THEN [t EXCEPT !.pc = "fetch", !.fetchAt = Append(@, now')]
         ELSE [t EXCEPT !.pc = "settled", !.result = "null"] }
  /\ UNCHANGED <<nPush, handlers, dq, rq, rrun, baseTip, heads, tempRefs, dirs, budget, limit, hist>>

\* the job's promise settles: the queue frees the slot and starts the next job
DiscDone(t) ==
  /\ t \in drun
  /\ t.pc = "settled"
  /\ drun' = DiscRunAfter(drun \ {t}, dq, now)
  /\ dq' = DiscQueueAfter(drun \ {t}, dq)
  /\ UNCHANGED <<nPush, handlers, rq, rrun, baseTip, heads, tempRefs, dirs, now, budget, limit, hist>>

(* ------------------------------------------------------------------ *)
(* The repair job: withTempDir(clone, merge, republish), catch,        *)
(* finally deleteRef. pc names the call (or run of calls) the job is   *)
(* waiting for; log lists, in order, the calls that have returned.     *)
(*                                                                     *)
(* Consecutive calls of which at most one reads or writes anything     *)
(* another job can see (the remote, the clock) are one action: the     *)
(* others act on the job's own clone only, so no other job can tell    *)
(* when between its neighbours each of them ran. Which of the calls    *)
(* rejected is still chosen, and logged, call by call.                 *)
(* ------------------------------------------------------------------ *)
Returned(t, calls) == [t EXCEPT !.log = @ \o calls]

\* variant: withTempDir settles without fs.remove
ToRemoveDirSkipped(t) ==
  IF t.name # NoName THEN [t EXCEPT !.pc = "deleteRef"] ELSE [t EXCEPT !.pc = "settled"]

\* withTempDir's finally: fs.remove(dir) is issued
ToRemoveDir(t) == [t EXCEPT !.pc = "rmdir"]

\* variant: the branch is deleted only when nothing was thrown
AfterWorkspaceOnSuccess(t) ==
  IF t.name # NoName /\ t.failed = "none"
  THEN [t EXCEPT !.pc = "deleteRef"] ELSE [t EXCEPT !.pc = "settled"]

\* variant: the branch is deleted only when the push went through
AfterWorkspaceIfPushed(t) ==
  IF t.pushed THEN [t EXCEPT !.pc = "deleteRef"] ELSE [t EXCEPT !.pc = "settled"]

\* after withTempDir has settled: catch logs, finally deletes the temporary
\* branch when a name has been assigned
AfterWorkspace(t) ==
  IF t.name # NoName THEN [t EXCEPT !.pc = "deleteRef"] ELSE [t EXCEPT !.pc = "settled"]

\* variant: a rejection leaves withTempDir without the finally
ThrowSkipsRemove(t, step) == AfterWorkspace([t EXCEPT !.failed = step])

\* a call inside withTempDir's fn rejects: fn's promise rejects and the
\* finally of withTempDir issues fs.remove(dir)
Throw(t, step) == ToRemoveDir([t EXCEPT !.failed = step])

Running(t, step) == Quiet /\ t \in rrun /\ t.pc = step

\* how many of n consecutive calls succeed before one rejects (n: none does)
Successes(n) == IF budget.faults < limit.faults THEN 0..n ELSE {n}

\* the calls among `calls` that were made when the first k succeeded
Made(calls, k) == SubSeq(calls, 1, Min(k + 1, Len(calls)))

\* fs.mkdtemp(...) in withTempDir
MkdTemp(t) ==
  /\ Running(t, "mkdtemp")
  /\ \E ok \in Outcomes :
       /\ Spend(ok)
       /\ IF ok
          THEN /\ rrun' = (rrun \ {t}) \cup
                    { [Returned(t, <<"mkdtemp">>) EXCEPT !.dir = TRUE, !.pc = "setup"] }
               /\ dirs' = dirs \cup {t.id}
          ELSE /\ rrun' = (rrun \ {t}) \cup
                    { AfterWorkspace([Returned(t, <<"mkdtemp">>) EXCEPT !.failed = "mkdtemp"]) }
               /\ UNCHANGED dirs
  /\ UNCHANGED <<nPush, handlers, dq, drun, rq, baseTip, heads, tempRefs, now, limit, hist>>

\* fs.mkdirp/remove/mkdirp of the clone path, getRepoToken, git.clone,
\* git.addConfig x 3, git.checkout(base.ref), git.checkout(head.ref)
SetupCalls == <<"mkdirp", "token", "clone", "config", "checkoutBase", "checkoutHead">>

\* the local repository holds the remote's branches as they are at the clone
Cloned(t) == [t EXCEPT !.lbase = baseTip[t.baseRef], !.lhead = heads[t.headRef]]

Setup(t) ==
  /\ Running(t, "setup")
  /\ \E k \in Successes(Len(SetupCalls)) :
       /\ Spend(k = Len(SetupCalls))
       /\ rrun' = (rrun \ {t}) \cup
            { IF k = Len(SetupCalls)
              THEN [Returned(Cloned(t), SetupCalls) EXCEPT !.pc = "merge"]
              ELSE Throw(Returned(IF k >= 3 THEN Cloned(t) ELSE t, Made(SetupCalls, k)),
                         SetupCalls[k + 1]) }
  /\ UNCHANGED <<nPush, handlers, dq, drun, rq, baseTip, heads, tempRefs, dirs, now, limit, hist>>

\* variant: no return after a failed merge, the code goes on to the push
AfterMergeFailureFallsThrough(t) ==
  [t EXCEPT !.merged = "failed", !.tip = t.lhead,
            !.name = TempBranchName(t.headRef, now), !.pc = "push"]

\* result !== 'success': return from fn, withTempDir's finally removes the dir
AfterMergeFailure(t) == ToRemoveDir([t EXCEPT !.merged = "failed"])

\* variant: the merged branch is looked up on the remote without a push
AfterMergeSuccessSkipsPush(t, ts) ==
  [t EXCEPT !.merged = "success",
            !.tip = GitMerge(t.lhead, t.lbase, t.baseRef, t.id),
            !.name = TempBranchName(t.headRef, ts),
            !.pc = "resolve"]

\* result = 'success': tempBranchName is assigned from Date.now() = ts and
\* `git checkout -b` is issued
AfterMergeSuccess(t, ts) ==
  [t EXCEPT !.merged = "success",
            !.tip = GitMerge(t.lhead, t.lbase, t.baseRef, t.id),
            !.name = TempBranchName(t.headRef, ts),
            !.pc = "push"]

\* git merge returns (exit 0, or a conflict, which the inner catch swallows);
\* the clock may have moved on since it was last read
Merge(t) ==
  /\ Running(t, "merge")
  /\ \E ok \in BOOLEAN, d \in {0, 1} :
       /\ d = 1 => (ok /\ budget.ticks < limit.ticks)
       /\ now' = now + d
       /\ budget' = [budget EXCEPT !.ticks = @ + d]
       /\ rrun' = (rrun \ {t}) \cup
            { IF ok THEN AfterMergeSuccess(Returned(t, <<"merge">>), now')
              ELSE AfterMergeFailure(Returned(t, <<"merge">>)) }
       /\ hist' = IF ok
                  THEN [hist EXCEPT !.names = @ \cup {TempBranchName(t.headRef, now')},
                                    !.clash = @ \/ TempBranchName(t.headRef, now') \in hist.names]
                  ELSE hist
  /\ UNCHANGED <<nPush, handlers, dq, drun, rq, baseTip, heads, tempRefs, dirs, limit>>

\* the remote accepts a push that creates the branch or fast-forwards it
PushAccepted(name, commit) ==
  name \notin DOMAIN tempRefs \/ IsAncestor(tempRefs[name], commit)

SetRef(refs, name, commit) ==
  IF name \in DOMAIN refs THEN [refs EXCEPT ![name] = commit]
  ELSE [n \in DOMAIN refs \cup {name} |-> IF n = name THEN commit ELSE refs[n]]

\* variant: the delete leaves the ref in place
DropRefKeeps(refs, name) == refs

DropRef(refs, name) == [n \in DOMAIN refs \ {name} |-> refs[n]]

\* git.raw(['checkout', '-b', tempBranchName]), git.push('origin', tempBranchName)
PushCalls == <<"checkoutTemp", "push">>

PushTemp(t) ==
  /\ Running(t, "push")
  /\ \E k \in Successes(Len(PushCalls)) :
       /\ Spend(k = Len(PushCalls))
       /\ IF k = Len(PushCalls) /\ PushAccepted(t.name, t.tip)
          THEN /\ tempRefs' = SetRef(tempRefs, t.name, t.tip)
               /\ rrun' = (rrun \ {t}) \cup
                    { [Returned(t, PushCalls) EXCEPT !.pushed = TRUE, !.pc = "resolve"] }
          ELSE /\ rrun' = (rrun \ {t}) \cup
                    { Throw(Returned(t, Made(PushCalls, k)), Made(PushCalls, k)[Min(k + 1, 2)]) }
               /\ UNCHANGED tempRefs
  /\ UNCHANGED <<nPush, handlers, dq, drun, rq, baseTip, heads, dirs, now, limit, hist>>

\* git.getRef({ ref: `heads/${tempBranchName}` }),
\* git.getCommit({ commit_sha: ref.data.object.sha }),
\* git.createCommit({ message, tree, parents })
ResolveCalls == <<"getRef", "getCommit", "createCommit">>

Resolve(t) ==
  /\ Running(t, "resolve")
  /\ \E k \in Successes(Len(ResolveCalls)) :
       /\ Spend(k = Len(ResolveCalls))
       /\ rrun' = (rrun \ {t}) \cup
            { IF t.name \notin DOMAIN tempRefs
              THEN Throw(Returned(t, <<"getRef">>), "getRef")
              ELSE IF k = Len(ResolveCalls)
              THEN [Returned(t, ResolveCalls)
                      EXCEPT !.sha = tempRefs[t.name], !.commit = tempRefs[t.name],
                             !.newCommit = Republished(tempRefs[t.name], t.id),
                             !.pc = "updateRef"]
              ELSE Throw(Returned(t, Made(ResolveCalls, k)), ResolveCalls[k + 1]) }
  /\ UNCHANGED <<nPush, handlers, dq, drun, rq, baseTip, heads, tempRefs, dirs, now, limit, hist>>

\* git.updateRef({ ref: `heads/${head.ref}`, sha }) without force: the remote
\* refuses an update that is not a fast-forward. On success fn returns and
\* withTempDir's finally removes the dir.
UpdateRef(t) ==
  /\ Running(t, "updateRef")
  /\ \E ok \in Outcomes :
       /\ Spend(ok)
       /\ hist' = IF ok THEN [hist EXCEPT !.lastUpdate[t.headRef] = t.newCommit] ELSE hist
       /\ IF ok /\ IsAncestor(heads[t.headRef], t.newCommit)
          THEN /\ heads' = [heads EXCEPT ![t.headRef] = t.newCommit]
               /\ rrun' = (rrun \ {t}) \cup
                    { ToRemoveDir([Returned(t, <<"updateRef">>) EXCEPT !.updated = TRUE]) }
          ELSE /\ rrun' = (rrun \ {t}) \cup { Throw(Returned(t, <<"updateRef">>), "updateRef") }
               /\ UNCHANGED heads
  /\ UNCHANGED <<nPush, handlers, dq, drun, rq, baseTip, tempRefs, dirs, now, limit>>

\* fs.remove(dir) in withTempDir's finally returns; withTempDir settles and
\* the job's catch and finally run
RemoveDir(t) ==
  /\ Running(t, "rmdir")
  /\ \E ok \in Outcomes :
       /\ Spend(ok)
       /\ IF ok
          THEN /\ dirs' = dirs \ {t.id}
               /\ rrun' = (rrun \ {t}) \cup
                    { AfterWorkspace([Returned(t, <<"rmdir">>) EXCEPT !.dir = FALSE]) }
          ELSE /\ UNCHANGED dirs
               /\ rrun' = (rrun \ {t}) \cup
                    { AfterWorkspace([Returned(t, <<"rmdir">>)
                                        EXCEPT !.failed = IF @ = "none" THEN "rmdir" ELSE @,
                                               !.rmFailed = TRUE]) }
       /\ hist' = IF ok THEN hist ELSE [hist EXCEPT !.left = @ \cup {t.id}]
  /\ UNCHANGED <<nPush, handlers, dq, drun, rq, baseTip, heads, tempRefs, now, limit>>

\* .catch(() => {}): whatever deleteRef did, the finally block completes
\* and the job's promise resolves
AfterDelete(t, ok) ==
  [t EXCEPT !.pc = "settled", !.deleted = IF ok THEN "ok" ELSE "failed"]

\* git.deleteRef({ ref: `heads/${tempBranchName}` }) returns
DeleteRef(t) ==
  /\ Running(t, "deleteRef")
  /\ \E ok \in Outcomes :
       /\ Spend(ok)
       /\ tempRefs' = IF ok THEN DropRef(tempRefs, t.name) ELSE tempRefs
       /\ rrun' = (rrun \ {t}) \cup { AfterDelete(Returned(t, <<"deleteRef">>), ok) }
  /\ UNCHANGED <<nPush, handlers, dq, drun, rq, baseTip, heads, dirs, now, limit, hist>>

\* the job's promise settles: the queue frees the slot and starts the next job
RepairDone(t) ==
  /\ t \in rrun
  /\ t.pc = "settled"
  /\ rrun' = RepairRunAfter(rrun \ {t}, rq)
  /\ rq' = RepairQueueAfter(rrun \ {t}, rq)
  /\ UNCHANGED <<nPush, handlers, dq, drun, baseTip, heads, tempRefs, dirs, now, budget, limit, hist>>

(* ------------------------------------------------------------------ *)
(* Specification                                                       *)
(* ------------------------------------------------------------------ *)
Next ==
  \/ \E ref \in Refs : PushEvent(ref)
  \/ \E h \in handlers : ListReturn(h)
  \/ \E h \in handlers : HandlerEnd(h)
  \/ \E t \in drun : FetchReturn(t)
  \/ \E t \in drun : Wake(t)
  \/ \E t \in drun : DiscDone(t)
  \/ \E t \in rrun : MkdTemp(t)
  \/ \E t \in rrun : Setup(t)
  \/ \E t \in rrun : Merge(t)
  \/ \E t \in rrun : PushTemp(t)
  \/ \E t \in rrun : Resolve(t)
  \/ \E t \in rrun : UpdateRef(t)
  \/ \E t \in rrun : RemoveDir(t)
  \/ \E t \in rrun : DeleteRef(t)
  \/ \E t \in rrun : RepairDone(t)

Spec == Init /\ [][Next]_vars

\* a single pull request, probed through all its attempts
SpecProbe == InitProbe /\ [][Next]_vars

\* under LoadLimits no answer is 'unknown', so no timer is ever armed
NextLoad ==
  \/ \E ref \in Refs : PushEvent(ref)
  \/ \E h \in handlers : ListReturn(h)
  \/ \E h \in handlers : HandlerEnd(h)
  \/ \E t \in drun : FetchReturn(t)
  \/ \E t \in drun : DiscDone(t)
  \/ \E t \in rrun : MkdTemp(t)
  \/ \E t \in rrun : Setup(t)
  \/ \E t \in rrun : Merge(t)
  \/ \E t \in rrun : PushTemp(t)
  \/ \E t \in rrun : Resolve(t)
  \/ \E t \in rrun : UpdateRef(t)
  \/ \E t \in rrun : RemoveDir(t)
  \/ \E t \in rrun : DeleteRef(t)
  \/ \E t \in rrun : RepairDone(t)

SpecLoad == InitLoad /\ [][NextLoad]_vars

\* more repair jobs than mergeQueue has slots, and a call that is rejected
SpecCrowd == InitCrowd /\ [][NextLoad]_vars

\* what the process does by itself once a promise has settled: the handler
\* returns, the queue takes the job off and starts the next one
Settle ==
  \/ \E h \in handlers : HandlerEnd(h)
  \/ \E t \in drun : DiscDone(t)
  \/ \E t \in rrun : RepairDone(t)

\* the calls of the handler and of the discovery jobs return
DiscoveryReturns ==
  \/ \E h \in handlers : ListReturn(h)
  \/ \E t \in drun : FetchReturn(t)

\* the calls of the repair jobs return
RepairReturns ==
  \/ \E t \in rrun : MkdTemp(t)
  \/ \E t \in rrun : Setup(t)
  \/ \E t \in rrun : Merge(t)
  \/ \E t \in rrun : PushTemp(t)
  \/ \E t \in rrun : Resolve(t)
  \/ \E t \in rrun : UpdateRef(t)
  \/ \E t \in rrun : RemoveDir(t)
  \/ \E t \in rrun : DeleteRef(t)

\* every call returns or fails in the end, every settled promise is handled
SpecFair ==
  /\ InitWait /\ [][NextLoad]_vars
  /\ WF_vars(Settle) /\ WF_vars(DiscoveryReturns) /\ WF_vars(RepairReturns)

\* the calls of the repair jobs may never return
SpecHung ==
  /\ InitWait /\ [][NextLoad]_vars
  /\ WF_vars(Settle) /\ WF_vars(DiscoveryReturns)


(* ------------------------------------------------------------------ *)
(* Properties                                                          *)
(* ------------------------------------------------------------------ *)
Count(log, call) == Cardinality({ i \in 1..Len(log) : log[i] = call })

Settled(t) == t.pc = "settled"

\* C1: in every reachable state at most 4 discovery jobs of mergabilityQueue
\* and at most 3 repair jobs of mergeQueue are executing.
C1_ConcurrencyBounded == Cardinality(drun) <= 4 /\ Cardinality(rrun) <= 3

\* three repairs execute and a fourth waits, while the probe of the fifth
\* pull request, which had to wait for a discovery slot, executes
C1_Witness ==
  /\ Cardinality(rrun) = 3
  /\ Len(rq) >= 1
  /\ \E t \in drun : t.pr = 9 /\ t.pc = "fetch"

\* C2 (as stated): a temporary branch that a repair job pushed does not exist
\* on the remote once the job has completed, whatever deleteRef did.
C2_BranchGoneWhateverDeleteDid ==
  \A t \in rrun : Settled(t) /\ t.pushed => t.name \notin DOMAIN tempRefs

\* C2 (amended): for a temporary branch that a repair job pushed, deleteRef
\* has been called once when the job completes, and the branch does not
\* exist on the remote then if that call succeeded.
C2_BranchGoneWhenDeleteSucceeded ==
  \A t \in rrun :
    Settled(t) /\ t.pushed =>
      /\ Count(t.log, "deleteRef") = 1
      /\ t.deleted # "none"
      /\ t.deleted = "ok" => t.name \notin DOMAIN tempRefs

C2_Witness ==
  \E t \in rrun :
    /\ Settled(t) /\ t.pushed /\ t.deleted = "ok"
    /\ t.failed \in {"getRef", "getCommit", "createCommit", "updateRef"}
    /\ t.name \notin DOMAIN tempRefs

\* C3: once a repair job has assigned tempBranchName, exactly one deleteRef
\* has been called when the job completes, on every exit path, never more
\* than one at any time and none without a name; a rejected deleteRef does
\* not reject the job.
C3_DeleteRefOnceAndSwallowed ==
  \A t \in rrun :
    /\ Count(t.log, "deleteRef") <= 1
    /\ t.name = NoName => Count(t.log, "deleteRef") = 0
    /\ Settled(t) /\ t.name # NoName => Count(t.log, "deleteRef") = 1
    /\ Settled(t) => ~t.rejected

C3_Witness ==
  \E t \in rrun :
    /\ Settled(t) /\ t.failed = "push" /\ ~t.pushed
    /\ t.deleted = "failed" /\ Count(t.log, "deleteRef") = 1 /\ ~t.rejected

\* the calls of a repair job that follow a successful merge
AfterMergeCalls ==
  {"checkoutTemp", "push", "getRef", "getCommit", "createCommit", "updateRef", "deleteRef"}

\* C4: a repair job whose local merge failed assigns no temporary branch and
\* calls none of push, createCommit, updateRef, deleteRef (nor any other call
\* that follows the merge), so it leaves the head ref as it is.
C4_MergeFailureMutatesNothing ==
  \A t \in rrun :
    t.merged = "failed" =>
      /\ t.name = NoName /\ ~t.pushed /\ ~t.updated /\ t.deleted = "none"
      /\ \A c \in AfterMergeCalls : Count(t.log, c) = 0

C4_Witness ==
  \E t \in rrun :
    /\ Settled(t) /\ t.merged = "failed"
    /\ t.log = <<"mkdtemp">> \o SetupCalls \o <<"merge", "rmdir">>
    /\ heads[t.headRef] = HeadCommit(t.headRef)

HeadElsewhere(n) == PR(n).headRepo # RepoOf(Owner, Repo)

InSeq(x, q) == \E i \in 1..Len(q) : q[i] = x

\* every job of either queue, waiting or executing
Range(q) == { q[i] : i \in 1..Len(q) }

JobIds == { t.id : t \in Range(dq) \cup drun \cup Range(rq) \cup rrun }

\* C6 (as stated): once the handler has gone through a listing, no pull
\* request of it whose head repository differs from the event's repository
\* has a discovery or repair job, and every same-repository pull request
\* later in the listing has been enqueued.
C6_ForksSkippedLaterOnesEnqueued ==
  \A h \in handlers :
    h.pc = "end" =>
      \A i \in 1..Len(h.prs) :
        HeadElsewhere(h.prs[i]) =>
          /\ ~InSeq(h.prs[i], h.enq)
          /\ <<h.n, h.prs[i]>> \notin JobIds
          /\ \A j \in (i + 1)..Len(h.prs) :
               ~HeadElsewhere(h.prs[j]) => InSeq(h.prs[j], h.enq)

\* C7: every repair job was enqueued for a pull request classified dirty; a
\* discovery job that ended with any other classification, or with null after
\* the retries, has enqueued no repair job and fetches no more; no pull
\* request has two discovery jobs in one pass.
C7_RepairOnlyWhenDirty ==
  /\ \A r \in Range(rq) \cup rrun : r.state = "dirty"
  /\ \A t \in drun :
       Settled(t) =>
         /\ t.repair <=> t.result = "dirty"
         /\ (\E r \in Range(rq) \cup rrun : r.id = t.id) <=> t.result = "dirty"
         /\ t.id \notin { j.id : j \in Range(dq) }
  /\ \A t, u \in drun : t.id = u.id => t = u
  /\ \A i, j \in 1..Len(dq) : dq[i].id = dq[j].id => i = j

C7_Witness ==
  \E t \in drun :
    /\ Settled(t) /\ t.result = "blocked" /\ t.seen = <<"unknown", "blocked">>
    /\ rq = <<>> /\ rrun = {} /\ dq = <<>>

\* C8: getPRWithMergability never returns a pull request in state unknown; it
\* returns the first answer that is not unknown, or null after the third
\* unknown; it fetches at most 3 times, and at least 5000 ms lie between two
\* consecutive fetches.
C8_ProberResolvesOrGivesUp ==
  \A t \in drun :
    /\ Len(t.fetchAt) <= 3
    /\ \A i \in 1..(Len(t.fetchAt) - 1) : t.fetchAt[i + 1] - t.fetchAt[i] >= 5000
    /\ Settled(t) /\ t.result # "error" =>
         /\ t.result # "unknown"
         /\ Len(t.seen) = Len(t.fetchAt)
         /\ \A i \in 1..(Len(t.seen) - 1) : t.seen[i] = "unknown"
         /\ IF t.result = "null"
            THEN t.seen = <<"unknown", "unknown", "unknown">>
            ELSE t.seen[Len(t.seen)] = t.result

C8_Witness ==
  \E t \in drun :
    /\ Settled(t) /\ t.result = "null"
    /\ t.fetchAt = <<0, 5000, 10000>>
    /\ now >= 15000

\* C9: in every step in which a repair job's head-ref update succeeds, the
\* commit the head ref points at afterwards has the tree and the parents of
\* the commit read from the tip of the temporary branch, and that commit's
\* message without a leading '[ci skip] '.
C9_RepublishedCommit ==
  [][\A t \in rrun :
       t.pc = "updateRef" /\ (\E u \in rrun' : u.id = t.id /\ u.updated) =>
         /\ heads'[t.headRef].tree = t.commit.tree
         /\ heads'[t.headRef].parents = t.commit.parents
         /\ heads'[t.headRef].message =
              IF t.commit.message[1] = "[ci skip] "
              THEN Tail(t.commit.message) ELSE t.commit.message]_vars

\* the head ref points at the republished local merge commit
C9_Witness ==
  \E t \in rrun :
    /\ t.updated /\ heads[t.headRef] = t.newCommit
    /\ t.commit = t.tip /\ t.tip.parents = <<HeadCommit(t.headRef), t.lbase>>
    /\ t.tip.message[1] = "[ci skip] "
    /\ heads[t.headRef].message = Tail(t.tip.message)
    /\ heads[t.headRef].tree = t.tip.tree

\* the refs the handler acts on, with the branch each names
ReleaseRefs ==
  { [ref |-> <<"r","e","f","s","/","h","e","a","d","s","/","m","a","i","n">>,
     branch |-> <<"m","a","i","n">>],
    [ref |-> <<"r","e","f","s","/","h","e","a","d","s","/","7","-","x","-","y">>,
     branch |-> <<"7","-","x","-","y">>],
    [ref |-> <<"r","e","f","s","/","h","e","a","d","s","/","1","2","-","x","-","y">>,
     branch |-> <<"1","2","-","x","-","y">>] }

\* C10: for a push whose ref is not refs/heads/main or refs/heads/<digits>-x-y
\* the handler lists nothing and no job exists for it; for such a ref the
\* listing is asked for, and holds, the pull requests whose base is that
\* branch.
C10_OnlyReleaseBranches ==
  \A h \in handlers :
    IF \E r \in ReleaseRefs : r.ref = h.ref
    THEN /\ h.listed
         /\ \A r \in ReleaseRefs : r.ref = h.ref => h.base = r.branch
         /\ \A i \in 1..Len(h.prs) : PR(h.prs[i]).baseRef = h.base
    ELSE /\ ~h.listed /\ h.pc = "end" /\ h.prs = <<>> /\ h.enq = <<>>
         /\ \A id \in JobIds : id[1] # h.n

C10_Witness ==
  \E h \in handlers :
    /\ h.ref = <<"r","e","f","s","/","h","e","a","d","s","/",
                 "f","e","a","t","u","r","e","/","f","o","o">>
    /\ h.pc = "end" /\ ~h.listed
    /\ \A id \in JobIds : id[1] # h.n

\* C11 (as stated): a failure at one pull request keeps no other pull request
\* from its jobs: every same-repository pull request of a listing the handler
\* went through has been enqueued; a discovery job whose fetch was rejected
\* has enqueued no repair job; no job's promise is rejected.
C11_FailuresAreIsolated ==
  /\ \A h \in handlers :
       h.pc = "end" =>
         \A i \in 1..Len(h.prs) : ~HeadElsewhere(h.prs[i]) => InSeq(h.prs[i], h.enq)
  /\ \A t \in drun :
       Settled(t) /\ t.result = "error" =>
         ~t.repair /\ ~(\E r \in Range(rq) \cup rrun : r.id = t.id)
  /\ \A t \in rrun : ~t.rejected

\* the calls of a repair job, in the order of the source
RepairOrder ==
  <<"mkdtemp", "mkdirp", "token", "clone", "config", "checkoutBase", "checkoutHead",
    "merge", "checkoutTemp", "push", "getRef", "getCommit", "createCommit", "updateRef",
    "rmdir", "deleteRef">>

Cleanup == {"rmdir", "deleteRef"}

\* the calls before the cleanup, and the cleanup, as they may follow each other
CleanupRuns == { <<>>, <<"rmdir">>, <<"rmdir", "deleteRef">> }

\* how many calls of the log come before the cleanup
BeforeCleanup(log) == Cardinality({ i \in 1..Len(log) : log[i] \notin Cleanup })

\* C12: the calls of a repair job occur in the order clone, configure,
\* checkout base, checkout head, merge, push, create commit, update head ref,
\* delete temporary branch; none but the cleanup is made unless every call
\* before it was made and none of them failed; the head ref is updated only
\* after a successful merge and push; when the commit was created, the
\* temporary branch is deleted only after the update was attempted.
C12_StepsInOrder ==
  \A t \in rrun :
    /\ SubSeq(t.log, 1, BeforeCleanup(t.log)) = SubSeq(RepairOrder, 1, BeforeCleanup(t.log))
    /\ SubSeq(t.log, BeforeCleanup(t.log) + 1, Len(t.log)) \in CleanupRuns
    /\ \A i \in 1..(Len(t.log) - 1) :
         (t.log[i] = t.failed \/ (t.log[i] = "merge" /\ t.merged = "failed"))
           => t.log[i + 1] \in Cleanup
    /\ InSeq("updateRef", t.log) \/ t.updated =>
         t.merged = "success" /\ t.pushed /\ InSeq("push", t.log)
    /\ InSeq("deleteRef", t.log) /\ InSeq("createCommit", t.log) /\ t.failed # "createCommit"
         => InSeq("updateRef", t.log)

C12_Witness ==
  \E t \in rrun : Settled(t) /\ t.log = RepairOrder /\ t.updated /\ t.deleted = "ok"

PostPushCalls == {"getRef", "getCommit", "createCommit", "updateRef"}

SetupFailures == {"mkdirp", "token", "clone", "config", "checkoutBase", "checkoutHead"}

\* C14: a repair job in which the token, the clone, the configuration or a
\* checkout failed makes no call that changes the remote (no push, no
\* createCommit, no updateRef, no deleteRef) and does not get to the merge;
\* the one call it makes after the failure is the removal of its directory.
C14_SetupFailureMutatesNothing ==
  \A t \in rrun :
    t.failed \in SetupFailures =>
      /\ t.name = NoName /\ ~t.pushed /\ ~t.updated /\ t.deleted = "none"
      /\ \A c \in AfterMergeCalls \cup {"merge"} : Count(t.log, c) = 0
      /\ t.pc \in {"rmdir", "settled"}
      /\ Settled(t) => t.log[Len(t.log)] = "rmdir" /\ Count(t.log, "rmdir") = 1
      /\ \A n \in DOMAIN tempRefs : tempRefs[n].by # <<"bot", t.id[1], t.id[2]>>

C14_Witness ==
  \E t \in rrun :
    Settled(t) /\ t.failed = "token" /\ t.log = <<"mkdtemp", "mkdirp", "token", "rmdir">>

\* C16: after one push with one same-repository pull request enqueued, whose
\* first status fetch said dirty, with a merge that succeeded and no call
\* rejected: when the repair job completes it is the only job there is, it
\* made every call once, the head ref points at the one commit it created (on
\* top of the old head and the base), no other head ref has moved, and no
\* temporary branch and no directory is left.
C16_SingleDirtyPullRequest ==
  \A t \in rrun :
    ( /\ Settled(t) /\ t.merged = "success"
      /\ nPush = 1 /\ budget.jobs = 1 /\ budget.faults = 0 /\ budget.unknowns = 0 ) =>
      /\ rrun = {t} /\ rq = <<>> /\ drun = {} /\ dq = <<>>
      /\ t.failed = "none" /\ t.log = RepairOrder
      /\ t.updated /\ heads[t.headRef] = t.newCommit
      /\ t.newCommit.by = <<"api", t.id[1], t.id[2]>>
      /\ t.newCommit.parents = <<HeadCommit(t.headRef), baseTip[t.baseRef]>>
      /\ t.newCommit.tree = HeadCommit(t.headRef).tree \cup baseTip[t.baseRef].tree
      /\ \A h \in HeadBranches \ {t.headRef} :
           heads[h] = HeadCommit(h) /\ hist.lastUpdate[h] = RootCommit
      /\ hist.lastUpdate[t.headRef] = t.newCommit
      /\ tempRefs = <<>> /\ dirs = {}

C16_Witness ==
  \E t \in rrun :
    /\ Settled(t) /\ t.merged = "success" /\ t.pr = 6
    /\ nPush = 1 /\ budget.jobs = 1 /\ budget.faults = 0 /\ budget.unknowns = 0
    /\ heads[t.headRef] = t.newCommit /\ tempRefs = <<>>

\* C17 (as stated): any two repair jobs executing at the same time that have
\* assigned a temporary branch name have assigned different names.
C17_DistinctTempBranchNames ==
  \A t, u \in rrun :
    t # u /\ t.name # NoName /\ u.name # NoName => t.name # u.name

RECURSIVE Descends(_, _)
\* commit c is a, or has a among the parents of its parents
Descends(c, a) ==
  \/ c = a
  \/ \E i \in 1..Len(c.parents) : Descends(c.parents[i], a)

\* no other repair job for the head branch of t is waiting or executing
LastOnHead(t) ==
  /\ \A u \in rrun \ {t} : u.headRef # t.headRef
  /\ \A i \in 1..Len(rq) : rq[i].headRef # t.headRef

\* C18 (as stated): when the repair jobs for a head branch have completed,
\* every one under a temporary branch name of its own, the head ref points at
\* the commit of the updateRef the remote received last.
C18_LastUpdateWins ==
  \A t \in rrun :
    ( /\ Settled(t) /\ LastOnHead(t) /\ ~hist.clash
      /\ InSeq("updateRef", t.log) /\ hist.lastUpdate[t.headRef] = t.newCommit )
      => heads[t.headRef] = t.newCommit

\* C18 (amended): a head ref only moves to a commit that contains the commit
\* it pointed at. The commit of an accepted update stays contained in the
\* head; an updateRef that the remote received and the job saw fail was for a
\* commit that does not contain the head, which then is a commit another job
\* created: of two jobs that merged the same head commit the first update
\* stands and the second is refused.
C18_FirstAcceptedUpdateStands ==
  /\ \A h \in HeadBranches : Descends(heads[h], HeadCommit(h))
  /\ \A t \in rrun :
       /\ t.updated => Descends(heads[t.headRef], t.newCommit)
       /\ t.updated /\ hist.lastUpdate[t.headRef] = t.newCommit
            => heads[t.headRef] = t.newCommit
       /\ (~t.updated /\ t.failed = "updateRef" /\ hist.lastUpdate[t.headRef] = t.newCommit) =>
            /\ ~Descends(t.newCommit, heads[t.headRef])
            /\ heads[t.headRef].by[1] = "api"
            /\ <<heads[t.headRef].by[2], heads[t.headRef].by[3]>> # t.id
            /\ heads[t.headRef].parents = t.newCommit.parents
                 \/ Descends(heads[t.headRef], t.lhead)

\* two jobs merged the same head and base; the second update was refused
C18_Witness ==
  \E t \in rrun :
    /\ Settled(t) /\ LastOnHead(t) /\ budget.faults = 0 /\ ~hist.clash
    /\ t.failed = "updateRef" /\ hist.lastUpdate[t.headRef] = t.newCommit
    /\ heads[t.headRef] # t.newCommit
    /\ heads[t.headRef].parents = t.newCommit.parents
    /\ t.deleted = "ok"

\* C20 (as stated): every directory that exists belongs to one executing
\* repair job, so there are never more directories than executing repair
\* jobs, hence never more than 3; a job's directory is gone before the job
\* issues its deleteRef.
C20_WorkspacesOwnedByRunningJobs ==
  /\ \A d \in dirs : \E t \in rrun : t.id = d
  /\ \A t, u \in rrun : t.id = u.id => t = u
  /\ Cardinality(dirs) <= Cardinality(rrun)
  /\ Cardinality(dirs) <= 3
  /\ \A t \in rrun : t.pc = "deleteRef" \/ InSeq("deleteRef", t.log) => t.id \notin dirs

\* C20 (amended): every directory that exists and whose fs.remove has not been
\* rejected belongs to one executing repair job that is between mkdtemp and
\* the return of fs.remove, so there are never more such directories than
\* executing repair jobs, hence never more than 3; before a job issues its
\* deleteRef, fs.remove has returned for its directory.
C20_LiveWorkspacesOwned ==
  /\ \A d \in dirs \ hist.left :
       \E t \in rrun : t.id = d /\ t.dir /\ t.pc \notin {"mkdtemp", "deleteRef", "settled"}
  /\ \A t, u \in rrun : t.id = u.id => t = u
  /\ Cardinality(dirs \ hist.left) <= Cardinality(rrun)
  /\ Cardinality(dirs \ hist.left) <= 3
  /\ \A t \in rrun :
       t.pc = "deleteRef" \/ InSeq("deleteRef", t.log) =>
         InSeq("rmdir", t.log) /\ t.id \notin dirs \ hist.left

\* three executing jobs with a directory each, beside one that was left behind
C20_Witness ==
  /\ Cardinality(rrun) = 3
  /\ Cardinality(dirs \ hist.left) = 3
  /\ \A t \in rrun : t.dir /\ t.id \in dirs
  /\ hist.left # {} /\ hist.left \subseteq dirs

DiscoveryDrained == dq = <<>> /\ drun = {}

RepairDrained == rq = <<>> /\ rrun = {}

\* C15: a repair job waits only while 3 repair jobs execute, however many
\* discovery jobs do; a discovery job that has enqueued a repair job ends
\* before that repair job has done anything; and with repair calls that may
\* never return, whenever a discovery job waits or executes, a state follows
\* in which none does.
C15_QueuesIndependent ==
  /\ [](rq # <<>> => Cardinality(rrun) = 3)
  /\ [](\A d \in drun :
          Settled(d) /\ d.repair =>
            \/ \E i \in 1..Len(rq) : rq[i].id = d.id
            \/ \E r \in rrun : r.id = d.id /\ r.log = <<>>)
  /\ ~DiscoveryDrained ~> DiscoveryDrained

\* every discovery job has ended, three repair jobs have not got an answer to
\* their first call, and the fourth waits
C15_Witness ==
  /\ DiscoveryDrained
  /\ Cardinality(rrun) = 3 /\ \A t \in rrun : t.pc = "mkdtemp" /\ t.log = <<>>
  /\ Len(rq) = 1

====
